---------------------------- MODULE Spec2Model ----------------------------
(***************************************************************************)
(* A model of the twik evaluator's default globals (globals.go): the      *)
(* built-in functions on exact rationals, the special forms and the       *)
(* closures built by func, evaluated against a chain of scopes.           *)
(*                                                                         *)
(* A Go value of type interface{} is a record [t, n, d, p]:               *)
(*   t = "nil"                      the nil interface                      *)
(*   t = "bool",  n = 1 or 0        true or false                          *)
(*   t = "str",   n = k             the k-th string of Strs                *)
(*   t = "rat",   n/d, p            a *big.Rat: the address p of the      *)
(*                                  object and the fraction it holds       *)
(*   t = "fn",    n = id            the closure fns[id] built by func      *)
(*   t = "builtin", n = k           the k-th function of Builtins          *)
(* An error is a record [kind, msg]; kind "" is the nil error and kind    *)
(* "panic" a Go run-time panic, which unwinds every caller.               *)
(***************************************************************************)
EXTENDS Integers, Sequences, FiniteSets, TLC

VARIABLES
    scopes,  \* the tables of the environment, scopes[1] the root
    fns,     \* the closures built by func
    ptr,     \* the last address handed out for a big.Rat
    cur,     \* the scope the host evaluates in
    node,    \* the node the host evaluated last
    out,     \* what that evaluation returned: [val, err]
    log,     \* history of that evaluation: the calls of Eval
    calls,   \* history of that evaluation: the closure invocations
    aop,     \* the built-in applied to aargs ("" before it is applied)
    aargs,   \* the evaluated arguments handed to the built-in
    ares     \* what the built-in returned: [val, err]

vars == <<scopes, fns, ptr, cur, node, out, log, calls, aop, aargs, ares>>

evalVars == <<scopes, fns, ptr, cur, node, out, log, calls>>

arithVars == <<aop, aargs, ares>>

-----------------------------------------------------------------------------
(* Bounds of the model.                                                    *)

\* how many times the host branches the root scope
MaxDepth == 1

\* the tables the environment may hold when the host starts an evaluation
MaxScopes == 4

\* the most operands of an and / or form
MaxOps == 3

\* the most arguments handed to a built-in
MaxArgs == 3

\* the largest numerator (in absolute value) and denominator of an argument
MaxNum == 2

-----------------------------------------------------------------------------
(* Values and errors.                                                      *)

NilV == [t |-> "nil", n |-> 0, d |-> 0, p |-> 0]

BoolV(b) == [t |-> "bool", n |-> IF b THEN 1 ELSE 0, d |-> 0, p |-> 0]

StrV(k) == [t |-> "str", n |-> k, d |-> 0, p |-> 0]

FnV(id) == [t |-> "fn", n |-> id, d |-> 0, p |-> 0]

BuiltinV(k) == [t |-> "builtin", n |-> k, d |-> 0, p |-> 0]

NoErr == [kind |-> "", msg |-> ""]

Err(kind, msg) == [kind |-> kind, msg |-> msg]

Panic(msg) == [kind |-> "panic", msg |-> msg]

\* what a call hands back: the machine after it, the value and the error
Ret(m, v, e) == [m |-> m, val |-> v, err |-> e]

Abs(i) == IF i < 0 THEN -i ELSE i

RECURSIVE Gcd(_, _)
Gcd(a, b) == IF b = 0 THEN a ELSE Gcd(b, a % b)

\* big.Rat keeps a fraction in lowest terms with a positive denominator
RatV(num, den, p) ==
    LET g == Gcd(Abs(num), Abs(den))
        s == IF den < 0 THEN -1 ELSE 1
    IN  [t |-> "rat", n |-> s * (num \div g), d |-> s * (den \div g), p |-> p]

\* interface{} == interface{}: same dynamic type and equal dynamic values;
\* two *big.Rat are equal when they are the same pointer. Comparing two
\* func values panics at run time.
GoComparable(v, w) == ~(v.t = w.t /\ v.t \in {"fn", "builtin"})

GoEq(v, w) ==
    /\ v.t = w.t
    /\ CASE v.t = "rat" -> v.p = w.p
         [] v.t = "nil" -> TRUE
         [] OTHER -> v.n = w.n


-----------------------------------------------------------------------------
(* AST nodes (package ast, consumed read-only): a literal carrying its    *)
(* value, a symbol carrying its name, a list of child nodes.              *)

Lit(v) == [k |-> "lit", name |-> "", v |-> v, nodes |-> <<>>]

Sym(name) == [k |-> "sym", name |-> name, v |-> NilV, nodes |-> <<>>]

List(nodes) == [k |-> "list", name |-> "", v |-> NilV, nodes |-> nodes]

\* args[from:] of Go
SliceFrom(s, from) == IF from > Len(s) THEN <<>> ELSE SubSeq(s, from, Len(s))

-----------------------------------------------------------------------------
(* The default globals, globals.go:11-33.                                 *)

Builtins == <<"error", "==", "!=", "+", "-", "*", "/">>

Specials == <<"or", "and", "if", "var", "set", "do", "func">>

SpecialV(k) == [t |-> "special", n |-> k, d |-> 0, p |-> 0]

defaultGlobals ==
    <<[name |-> "true", value |-> BoolV(TRUE)],
      [name |-> "false", value |-> BoolV(FALSE)],
      [name |-> "nil", value |-> NilV]>>
    \o [k \in 1..Len(Builtins) |-> [name |-> Builtins[k], value |-> BuiltinV(k)]]
    \o [k \in 1..Len(Specials) |-> [name |-> Specials[k], value |-> SpecialV(k)]]

-----------------------------------------------------------------------------
(* The environment: scopes[s] is a table of bindings with a parent (0 for *)
(* the root). The machine m carries the scopes, the closures, the last    *)
(* address handed out for a big.Rat, and two histories: log, the calls of *)
(* Eval in the order they returned (the node, the nesting depth, the      *)
(* value and the error), and calls, the closure invocations that passed   *)
(* the arity check (the closure, the scope its func form was evaluated    *)
(* in, the scope branched for the invocation, the parent of that scope).  *)

NoVars == [x \in {} |-> NilV]

Bind(tbl, name, v) == [x \in DOMAIN tbl \cup {name} |-> IF x = name THEN v ELSE tbl[x]]

\* Branch(): a new empty table whose parent is s; it is the last of scopes
Branch(s, m) == [m EXCEPT !.scopes = Append(@, [parent |-> s, vars |-> NoVars])]

\* Create(name, value): binds name in table s only
Create(s, name, v, m) ==
    IF name \in DOMAIN m.scopes[s].vars
    THEN Ret(m, NilV, Err("DuplicateBinding", name))
    ELSE Ret([m EXCEPT !.scopes[s].vars = Bind(@, name, v)], NilV, NoErr)

\* the nearest table from s outward that binds name, 0 if none does
RECURSIVE Find(_, _, _)
Find(s, name, m) ==
    IF s = 0 THEN 0
    ELSE IF name \in DOMAIN m.scopes[s].vars THEN s
    ELSE Find(m.scopes[s].parent, name, m)

\* Set(name, value): overwrites name in the nearest table that binds it
Set(s, name, v, m) ==
    LET at == Find(s, name, m)
    IN  IF at = 0
        THEN Ret(m, NilV, Err("UnboundSymbol", name))
        ELSE Ret([m EXCEPT !.scopes[at].vars[name] = v], NilV, NoErr)

\* Lookup(name): the value of name in the nearest table that binds it
Lookup(s, name, m) ==
    LET at == Find(s, name, m)
    IN  IF at = 0
        THEN Ret(m, NilV, Err("UnboundSymbol", name))
        ELSE Ret(m, m.scopes[at].vars[name], NoErr)

-----------------------------------------------------------------------------
(* The built-in functions, which take evaluated arguments.                *)

\* newRatZero(), newRatOne(): a new big.Rat at a new address
newRat(m) == [m EXCEPT !.ptr = @ + 1]

errorFn(args, m) ==
    IF Len(args) = 1 /\ args[1].t = "str"
    THEN Ret(m, NilV, Err("UserError", ToString(args[1].n)))
    ELSE Ret(m, NilV, Err("UserError", "error function takes a single string argument"))

eqFn(args, m) ==
    IF Len(args) # 2
    THEN Ret(m, NilV, Err("ArityMismatch", "== expects two values"))
    ELSE IF ~GoComparable(args[1], args[2])
    THEN Ret(m, NilV, Panic("comparing uncomparable type"))
    ELSE Ret(m, BoolV(GoEq(args[1], args[2])), NoErr)

neFn(args, m) ==
    IF Len(args) # 2
    THEN Ret(m, NilV, Err("ArityMismatch", "!= expects two values"))
    ELSE IF ~GoComparable(args[1], args[2])
    THEN Ret(m, NilV, Panic("comparing uncomparable type"))
    ELSE Ret(m, BoolV(~GoEq(args[1], args[2])), NoErr)

\* res.Add(res, arg), res.Sub(res, arg), res.Mul(res, arg): res keeps its address
RatAdd(res, arg) == RatV(res.n * arg.d + arg.n * res.d, res.d * arg.d, res.p)

RatSub(res, arg) == RatV(res.n * arg.d - arg.n * res.d, res.d * arg.d, res.p)

RatMul(res, arg) == RatV(res.n * arg.n, res.d * arg.d, res.p)

\* res.Quo(res, arg), for arg # 0 (big.Rat.Quo panics on a zero arg)
RatQuo(res, arg) == RatV(res.n * arg.d, res.d * arg.n, res.p)

RECURSIVE plusLoop(_, _, _, _)
plusLoop(args, i, res, m) ==
    IF i > Len(args) THEN Ret(m, res, NoErr)
    ELSE IF args[i].t = "rat" THEN plusLoop(args, i + 1, RatAdd(res, args[i]), m)
    ELSE Ret(m, NilV, Err("TypeMismatch", "cannot sum"))

plusFn(args, m) ==
    LET m1 == newRat(m)
    IN  plusLoop(args, 1, RatV(0, 1, m1.ptr), m1)

RECURSIVE minusLoop(_, _, _, _)
minusLoop(args, i, res, m) ==
    IF i > Len(args) THEN Ret(m, res, NoErr)
    ELSE IF args[i].t = "rat"
    THEN IF i = 1 /\ Len(args) > 1
         THEN LET m1 == newRat(m)
              IN  minusLoop(args, i + 1, RatV(args[i].n, args[i].d, m1.ptr), m1)
         ELSE IF res.t = "nil"
              THEN Ret(m, NilV, Panic("invalid memory address or nil pointer dereference"))
              ELSE minusLoop(args, i + 1, RatSub(res, args[i]), m)
    ELSE Ret(m, NilV, Err("TypeMismatch", "cannot subtract"))

minusFn(args, m) ==
    IF Len(args) = 0
    THEN Ret(m, NilV, Err("ArityMismatch", "function \"-\" takes one or more arguments"))
    ELSE minusLoop(args, 1, NilV, m)

RECURSIVE mulLoop(_, _, _, _)
mulLoop(args, i, res, m) ==
    IF i > Len(args) THEN Ret(m, res, NoErr)
    ELSE IF args[i].t = "rat" THEN mulLoop(args, i + 1, RatMul(res, args[i]), m)
    ELSE Ret(m, NilV, Err("TypeMismatch", "cannot multiply"))

mulFn(args, m) ==
    LET m1 == newRat(m)
    IN  mulLoop(args, 1, RatV(1, 1, m1.ptr), m1)

RECURSIVE divLoop(_, _, _, _)
divLoop(args, i, res, m) ==
    IF i > Len(args) THEN Ret(m, res, NoErr)
    ELSE IF args[i].t = "rat"
    THEN IF i = 1 /\ Len(args) > 1
         THEN LET m1 == newRat(m)
              IN  divLoop(args, i + 1, RatV(args[i].n, args[i].d, m1.ptr), m1)
         ELSE IF res.t = "nil"
              THEN Ret(m, NilV, Panic("invalid memory address or nil pointer dereference"))
              ELSE IF args[i].n = 0
              THEN Ret(m, NilV, Panic("division by zero"))
              ELSE divLoop(args, i + 1, RatQuo(res, args[i]), m)
    ELSE Ret(m, NilV, Err("TypeMismatch", "cannot divide with"))

divFn(args, m) ==
    IF Len(args) < 2
    THEN Ret(m, NilV, Err("ArityMismatch", "function \"/\" takes two or more arguments"))
    ELSE divLoop(args, 1, NilV, m)

CallBuiltin(k, args, m) ==
    CASE Builtins[k] = "error" -> errorFn(args, m)
      [] Builtins[k] = "==" -> eqFn(args, m)
      [] Builtins[k] = "!=" -> neFn(args, m)
      [] Builtins[k] = "+" -> plusFn(args, m)
      [] Builtins[k] = "-" -> minusFn(args, m)
      [] Builtins[k] = "*" -> mulFn(args, m)
      [] Builtins[k] = "/" -> divFn(args, m)

-----------------------------------------------------------------------------
(* The special forms, which take the scope and the unevaluated operands.  *)

RECURSIVE Eval(_, _, _)

IsFalse(v) == GoEq(v, BoolV(FALSE))

\* the element of a one-element set: Only({e(r) : r \in {call}}) is e of the
\* result r of the call, the call made once
Only(S) == CHOOSE x \in S : TRUE

RECURSIVE andLoop(_, _, _, _)
andLoop(scope, args, i, m) ==
    Only({ IF r.err # NoErr THEN Ret(r.m, NilV, r.err)
           ELSE IF IsFalse(r.val) THEN Ret(r.m, BoolV(FALSE), NoErr)
           ELSE IF i = Len(args) THEN Ret(r.m, r.val, NoErr)
           ELSE andLoop(scope, args, i + 1, r.m)
         : r \in {Eval(args[i], scope, m)} })

\* andFn evaluating every operand before it decides
RECURSIVE andEagerLoop(_, _, _, _, _)
andEagerLoop(scope, args, i, seenFalse, m) ==
    Only({ IF r.err # NoErr THEN Ret(r.m, NilV, r.err)
           ELSE IF i = Len(args)
           THEN IF seenFalse \/ IsFalse(r.val) THEN Ret(r.m, BoolV(FALSE), NoErr)
                ELSE Ret(r.m, r.val, NoErr)
           ELSE andEagerLoop(scope, args, i + 1, seenFalse \/ IsFalse(r.val), r.m)
         : r \in {Eval(args[i], scope, m)} })

andFnEager(scope, args, m) ==
    IF Len(args) = 0 THEN Ret(m, BoolV(TRUE), NoErr)
    ELSE andEagerLoop(scope, args, 1, FALSE, m)

andFn(scope, args, m) ==
    IF Len(args) = 0 THEN Ret(m, BoolV(TRUE), NoErr)
    ELSE andLoop(scope, args, 1, m)

RECURSIVE orLoop(_, _, _, _)
orLoop(scope, args, i, m) ==
    Only({ IF r.err # NoErr THEN Ret(r.m, NilV, r.err)
           ELSE IF ~IsFalse(r.val) THEN Ret(r.m, r.val, NoErr)
           ELSE IF i = Len(args) THEN Ret(r.m, r.val, NoErr)
           ELSE orLoop(scope, args, i + 1, r.m)
         : r \in {Eval(args[i], scope, m)} })

orFn(scope, args, m) ==
    IF Len(args) = 0 THEN Ret(m, BoolV(FALSE), NoErr)
    ELSE orLoop(scope, args, 1, m)

\* ifFn taking nil for false as well
ifFnNilFalsy(scope, args, m) ==
    IF Len(args) < 2 \/ Len(args) > 3
    THEN Ret(m, NilV, Err("ArityMismatch", "function \"if\" takes two or three arguments"))
    ELSE Only({ IF c.err # NoErr THEN Ret(c.m, NilV, c.err)
                ELSE IF IsFalse(c.val) \/ c.val.t = "nil"
                THEN IF Len(args) = 3
                     THEN Eval(args[3], scope, c.m)
                     ELSE Ret(c.m, BoolV(FALSE), NoErr)
                ELSE Eval(args[2], scope, c.m)
              : c \in {Eval(args[1], scope, m)} })

ifFn(scope, args, m) ==
    IF Len(args) < 2 \/ Len(args) > 3
    THEN Ret(m, NilV, Err("ArityMismatch", "function \"if\" takes two or three arguments"))
    ELSE Only({ IF c.err # NoErr THEN Ret(c.m, NilV, c.err)
                ELSE IF IsFalse(c.val)
                THEN IF Len(args) = 3
                     THEN Eval(args[3], scope, c.m)
                     ELSE Ret(c.m, BoolV(FALSE), NoErr)
                ELSE Eval(args[2], scope, c.m)
              : c \in {Eval(args[1], scope, m)} })

varFn(scope, args, m) ==
    IF Len(args) = 0 \/ Len(args) > 2
    THEN Ret(m, NilV, Err("ArityMismatch", "var takes one or two arguments"))
    ELSE IF args[1].k # "sym"
    THEN Ret(m, NilV, Err("MalformedForm", "var takes a symbol as first argument"))
    ELSE IF Len(args) = 1
    THEN Create(scope, args[1].name, NilV, m)
    ELSE Only({ IF r.err # NoErr THEN Ret(r.m, NilV, r.err)
                ELSE Create(scope, args[1].name, r.val, r.m)
              : r \in {Eval(args[2], scope, m)} })

\* setFn binding the name in the current table, whatever the chain binds
setFnInPlace(scope, args, m) ==
    IF Len(args) # 2
    THEN Ret(m, NilV, Err("ArityMismatch", "function \"set\" takes two arguments"))
    ELSE IF args[1].k # "sym"
    THEN Ret(m, NilV, Err("MalformedForm", "function \"set\" takes a symbol as first argument"))
    ELSE Only({ IF r.err # NoErr THEN Ret(r.m, NilV, r.err)
                ELSE Ret([r.m EXCEPT !.scopes[scope].vars = Bind(@, args[1].name, r.val)],
                         NilV, NoErr)
              : r \in {Eval(args[2], scope, m)} })

setFn(scope, args, m) ==
    IF Len(args) # 2
    THEN Ret(m, NilV, Err("ArityMismatch", "function \"set\" takes two arguments"))
    ELSE IF args[1].k # "sym"
    THEN Ret(m, NilV, Err("MalformedForm", "function \"set\" takes a symbol as first argument"))
    ELSE Only({ IF r.err # NoErr THEN Ret(r.m, NilV, r.err)
                ELSE Set(scope, args[1].name, r.val, r.m)
              : r \in {Eval(args[2], scope, m)} })

RECURSIVE doLoop(_, _, _, _, _)
doLoop(scope, args, i, value, m) ==
    IF i > Len(args) THEN Ret(m, value, NoErr)
    ELSE Only({ IF r.err # NoErr THEN Ret(r.m, NilV, r.err)
                ELSE doLoop(scope, args, i + 1, r.val, r.m)
              : r \in {Eval(args[i], scope, m)} })

\* doFn evaluating its operands in the scope it was given
doFnNoBranch(scope, args, m) ==
    doLoop(scope, args, 1, NilV, m)

doFn(scope, args, m) ==
    doLoop(Len(m.scopes) + 1, args, 1, NilV, Branch(scope, m))

-----------------------------------------------------------------------------
(* func and the closures it builds. fns[id] is a closure: its name ("" if *)
(* anonymous), its params and body nodes, and scope, the variable of      *)
(* funcFn that the closure captured and reads and writes when invoked.    *)
(* def is history: the scope in which the func form was evaluated.        *)

\* fmt.Errorf("%s takes ...", nameInfo), globals.go:254-265
arityError(name, nparams) ==
    LET nameInfo == IF name # "" THEN "function \"" \o name \o "\"" ELSE "anonymous function"
    IN  Err("ArityMismatch",
            CASE nparams = 0 -> nameInfo \o " takes no arguments"
              [] nparams = 1 -> nameInfo \o " takes one argument"
              [] OTHER -> nameInfo \o " takes " \o ToString(nparams) \o " arguments")

RECURSIVE bodyLoop(_, _, _, _)
bodyLoop(id, i, value, m) ==
    IF i > Len(m.fns[id].body) THEN Ret(m, value, NoErr)
    ELSE Only({ IF r.err # NoErr THEN Ret(r.m, NilV, r.err)
                ELSE bodyLoop(id, i + 1, r.val, r.m)
              : r \in {Eval(m.fns[id].body[i], m.fns[id].scope, m)} })

RECURSIVE bindLoop(_, _, _, _)
bindLoop(id, args, i, m) ==
    IF i > Len(args) THEN bodyLoop(id, 1, NilV, m)
    ELSE Only({ IF r.err # NoErr
                THEN Ret(r.m, NilV, Panic("must not happen: " \o r.err.kind))
                ELSE bindLoop(id, args, i + 1, r.m)
              : r \in {Create(m.fns[id].scope, m.fns[id].params[i].name, args[i], m)} })

\* scope = scope.Branch(): the branch is assigned to the captured variable
branchCaptured(id, m) ==
    [Branch(m.fns[id].scope, m) EXCEPT !.fns[id].scope = Len(m.scopes) + 1]

\* the closure fn of funcFn, globals.go:252-281
closureFn(id, args, m) ==
    IF Len(args) # Len(m.fns[id].params)
    THEN Ret(m, NilV, arityError(m.fns[id].name, Len(m.fns[id].params)))
    ELSE Only({ bindLoop(id, args, 1,
                         [m1 EXCEPT !.calls = Append(@,
                             [fn |-> id, def |-> m1.fns[id].def,
                              scope |-> Len(m1.scopes),
                              parent |-> m1.scopes[Len(m1.scopes)].parent])])
              : m1 \in {branchCaptured(id, m)} })

funcFn(scope, args, m) ==
    IF Len(args) < 2
    THEN Ret(m, NilV, Err("ArityMismatch", "func takes three or more arguments"))
    ELSE LET i == IF args[1].k = "sym" THEN 1 ELSE 0
             name == IF args[1].k = "sym" THEN args[1].name ELSE ""
             list == args[i + 1]
             body == SliceFrom(args, i + 2)
             id == Len(m.fns) + 1
             fn == [name |-> name, params |-> list.nodes, body |-> body,
                    scope |-> scope, def |-> scope]
             m1 == [m EXCEPT !.fns = Append(@, fn)]
         IN  IF list.k # "list"
             THEN Ret(m, NilV, Err("MalformedForm", "func takes a list of parameters"))
             ELSE IF \E j \in 1..Len(list.nodes) : list.nodes[j].k # "sym"
             THEN Ret(m, NilV, Err("MalformedForm",
                          "func's list of parameters must be a list of symbols"))
             ELSE IF Len(body) = 0
             THEN Ret(m, NilV, Err("MalformedForm", "func takes a body sequence"))
             ELSE IF name # ""
             THEN Only({ IF c.err # NoErr THEN Ret(c.m, NilV, c.err)
                         ELSE Ret(c.m, FnV(id), NoErr)
                       : c \in {Create(scope, name, FnV(id), m1)} })
             ELSE Ret(m1, FnV(id), NoErr)

-----------------------------------------------------------------------------
(* The evaluator.                                                         *)

IsSpecial(nd) == nd.k = "sym" /\ \E k \in 1..Len(Specials) : Specials[k] = nd.name

CallSpecial(name, scope, args, m) ==
    CASE name = "or" -> orFn(scope, args, m)
      [] name = "and" -> andFn(scope, args, m)
      [] name = "if" -> ifFn(scope, args, m)
      [] name = "var" -> varFn(scope, args, m)
      [] name = "set" -> setFn(scope, args, m)
      [] name = "do" -> doFn(scope, args, m)
      [] name = "func" -> funcFn(scope, args, m)

\* the arguments of an ordinary call, evaluated left to right
RECURSIVE EvalArgs(_, _, _, _, _)
EvalArgs(nodes, i, acc, scope, m) ==
    IF i > Len(nodes) THEN Ret(m, acc, NoErr)
    ELSE Only({ IF r.err # NoErr THEN Ret(r.m, <<>>, r.err)
                ELSE EvalArgs(nodes, i + 1, Append(acc, r.val), scope, r.m)
              : r \in {Eval(nodes[i], scope, m)} })

Call(nd, scope, m) ==
    IF Len(nd.nodes) = 0 THEN Ret(m, NilV, Err("EmptyCall", ""))
    ELSE IF IsSpecial(nd.nodes[1])
    THEN CallSpecial(nd.nodes[1].name, scope, SliceFrom(nd.nodes, 2), m)
    ELSE Only({ IF f.err # NoErr THEN Ret(f.m, NilV, f.err)
                ELSE IF f.val.t \notin {"fn", "builtin"}
                THEN Ret(f.m, NilV, Err("NotCallable", ""))
                ELSE Only({ IF a.err # NoErr THEN Ret(a.m, NilV, a.err)
                            ELSE IF f.val.t = "builtin"
                            THEN CallBuiltin(f.val.n, a.val, a.m)
                            ELSE closureFn(f.val.n, a.val, a.m)
                          : a \in {EvalArgs(nd.nodes, 2, <<>>, scope, f.m)} })
              : f \in {Eval(nd.nodes[1], scope, m)} })

EvalNode(nd, scope, m) ==
    CASE nd.k = "lit" -> Ret(m, nd.v, NoErr)
      [] nd.k = "sym" -> Lookup(scope, nd.name, m)
      [] nd.k = "list" -> Call(nd, scope, m)

Eval(nd, scope, m) ==
    Only({ [r EXCEPT !.m.depth = m.depth,
                     !.m.log = Append(@, [depth |-> m.depth, node |-> nd,
                                          val |-> r.val, err |-> r.err])]
         : r \in {EvalNode(nd, scope, [m EXCEPT !.depth = @ + 1])} })

-----------------------------------------------------------------------------
(* The host: it builds the root scope from the default globals, branches  *)
(* it, and hands nodes to Eval. Tables and closures that nothing refers   *)
(* to any more are discarded.                                             *)

\* the root scope: every default global created in one table
rootVars ==
    [x \in {defaultGlobals[i].name : i \in 1..Len(defaultGlobals)} |->
        defaultGlobals[CHOOSE i \in 1..Len(defaultGlobals) : defaultGlobals[i].name = x].value]

Max(S) == CHOOSE x \in S : \A y \in S : y <= x

\* the closures bound in a table
FnsIn(tbl) == {tbl[x].n : x \in {y \in DOMAIN tbl : tbl[y].t = "fn"}}

\* the tables and closures reachable from the tables R and the closures F:
\* a table refers to its parent and to the closures bound in it, a closure
\* to the scope it captured
RECURSIVE Reach(_, _, _)
Reach(R, F, m) ==
    LET R2 == (R \cup {m.scopes[s].parent : s \in R} \cup {m.fns[f].scope : f \in F}) \ {0}
        F2 == F \cup UNION {FnsIn(m.scopes[s].vars) : s \in R}
    IN  IF R2 = R /\ F2 = F THEN [R |-> R, F |-> F] ELSE Reach(R2, F2, m)

\* the machine without the tables and closures created last that neither
\* the host's scope c nor the value v it holds refers to
Collect(m, c, v) ==
    LET live == Reach({c}, IF v.t = "fn" THEN {v.n} ELSE {}, m)
    IN  [m EXCEPT !.scopes = SubSeq(@, 1, Max(live.R)),
                  !.fns = SubSeq(@, 1, Max(live.F \cup {0}))]

\* the number literals of the programs, each a big.Rat of its own
R1 == RatV(1, 1, 1)

R2 == RatV(2, 1, 2)

R0 == RatV(0, 1, 3)

NoOut == [val |-> NilV, err |-> NoErr]

\* the host has built the root scope and evaluated nothing
Init ==
    /\ scopes = <<[parent |-> 0, vars |-> rootVars]>>
    /\ fns = <<>>
    /\ ptr = R0.p
    /\ cur = 1
    /\ node = Lit(NilV)
    /\ out = NoOut
    /\ log = <<>>
    /\ calls = <<>>
    /\ aop = ""
    /\ aargs = <<>>
    /\ ares = NoOut

RECURSIVE Depth(_, _)
Depth(s, tables) == IF tables[s].parent = 0 THEN 0 ELSE 1 + Depth(tables[s].parent, tables)

\* the host's program has not crashed
Running == out.err.kind # "panic"

\* scope.Branch() by the host, which then evaluates in the branch
HostBranch ==
    /\ Running
    /\ Depth(cur, scopes) < MaxDepth
    /\ scopes' = Append(scopes, [parent |-> cur, vars |-> NoVars])
    /\ cur' = Len(scopes) + 1
    /\ node' = Lit(NilV)
    /\ out' = NoOut
    /\ log' = <<>>
    /\ calls' = <<>>
    /\ UNCHANGED <<fns, ptr, arithVars>>

\* scope.Eval(nd) by the host in its current scope
HostEval(nd) ==
    /\ Running
    /\ Len(scopes) <= MaxScopes
    /\ \E r \in {Eval(nd, cur, [scopes |-> scopes, fns |-> fns, ptr |-> ptr,
                                log |-> <<>>, calls |-> <<>>, depth |-> 0])} :
         \E g \in {Collect(r.m, cur, r.val)} :
           /\ scopes' = g.scopes
           /\ fns' = g.fns
           /\ ptr' = g.ptr
           /\ node' = nd
           /\ out' = [val |-> r.val, err |-> r.err]
           /\ log' = g.log
           /\ calls' = g.calls
    /\ UNCHANGED <<cur, arithVars>>

-----------------------------------------------------------------------------
(* Programs over scopes: var, set and do forms.                           *)

Form(op, args) == List(<<Sym(op)>> \o args)

Names == {"x", "y"}

VarForms ==
    {Form("var", <<Sym("x"), e>>) : e \in {Lit(R1), Lit(R2), Sym("x")}}
    \cup {Form("var", <<Sym("y"), Lit(R1)>>), Form("var", <<>>), Form("var", <<Lit(R1)>>)}

SetForms ==
    {Form("set", <<Sym("x"), e>>) : e \in {Lit(R1), Lit(R2), Sym("y")}}
    \cup {Form("set", <<Sym("y"), Lit(R2)>>),
          Form("set", <<Sym("x")>>), Form("set", <<Lit(R1), Lit(R2)>>)}

\* (do (var n v) n), and a block inside the block, before the lookup or as it
DoForms ==
    {Form("do", <<Form("var", <<Sym(n), v>>), Sym(n)>>) :
        n \in Names, v \in {Lit(R1), Lit(R2)}}
    \cup {Form("do", <<Form("var", <<Sym("x"), Lit(R1)>>),
                      Form("do", <<Form("var", <<Sym("x"), Lit(R2)>>), Sym("x")>>)>>),
          Form("do", <<Form("var", <<Sym("x"), Lit(R1)>>),
                      Form("do", <<Form("var", <<Sym("x"), Lit(R2)>>)>>),
                      Sym("x")>>),
          Form("do", <<Form("set", <<Sym("x"), Lit(R2)>>), Sym("x")>>),
          Form("do", <<>>)}

EvalVar == \E nd \in VarForms : HostEval(nd)

EvalSet == \E nd \in SetForms : HostEval(nd)

EvalDo == \E nd \in DoForms : HostEval(nd)

NextScope == HostBranch \/ EvalVar \/ EvalSet \/ EvalDo

SpecScope == Init /\ [][NextScope]_vars

-----------------------------------------------------------------------------
(* Claims about set, var and do, checked under SpecScope.                 *)

\* the tables from s outward to the root
RECURSIVE ChainOf(_, _)
ChainOf(s, tables) == IF s = 0 THEN {} ELSE {s} \cup ChainOf(tables[s].parent, tables)

\* the tables of the chain of s that bind name
Binders(s, name, tables) == {t \in ChainOf(s, tables) : name \in DOMAIN tables[t].vars}

\* the one of them nearest to s
Nearest(s, name, tables) ==
    CHOOSE t \in Binders(s, name, tables) :
        \A u \in Binders(s, name, tables) : Depth(u, tables) <= Depth(t, tables)

\* (set name expr) whose expr was evaluated without error
IsSetForm(nd) ==
    /\ nd.k = "list"
    /\ Len(nd.nodes) = 3
    /\ nd.nodes[1] = Sym("set")
    /\ nd.nodes[2].k = "sym"

\* C2: evaluating (set name expr), expr evaluated to v, overwrites name with
\* v in the nearest table of the chain of the current scope that binds name
\* and changes no other binding of any table, so that a lookup of name from
\* that scope then yields v; if no table of the chain binds name it fails
\* with UnboundSymbol and every table is as it was.
C2_SetNearest ==
    [][(IsSetForm(node') /\ log'[1].err = NoErr) =>
        LET name == node'.nodes[2].name
            v == log'[1].val
        IN  IF Binders(cur, name, scopes) = {}
            THEN /\ out'.err = Err("UnboundSymbol", name)
                 /\ scopes' = scopes
            ELSE /\ out'.err = NoErr
                 /\ scopes' = [scopes EXCEPT ![Nearest(cur, name, scopes)].vars[name] = v]
                 /\ Lookup(cur, name, [scopes |-> scopes']).val = v
                 /\ Lookup(cur, name, [scopes |-> scopes']).err = NoErr
      ]_vars

\* x is bound in the root only, the host is in a branch, and (set x 2) has
\* overwritten the root's x, which was 1
C2_Witness ==
    /\ node = Form("set", <<Sym("x"), Lit(R2)>>)
    /\ out.err = NoErr
    /\ cur # 1
    /\ "x" \notin DOMAIN scopes[cur].vars
    /\ scopes[1].vars["x"] = R2

\* the blocks whose operands are var forms, lookups and such blocks
ShadowForms ==
    {Form("do", <<Form("var", <<Sym(n), v>>), Sym(n)>>) :
        n \in Names, v \in {Lit(R1), Lit(R2)}}
    \cup {Form("do", <<Form("var", <<Sym("x"), Lit(R1)>>),
                      Form("do", <<Form("var", <<Sym("x"), Lit(R2)>>), Sym("x")>>)>>),
          Form("do", <<Form("var", <<Sym("x"), Lit(R1)>>),
                      Form("do", <<Form("var", <<Sym("x"), Lit(R2)>>)>>),
                      Sym("x")>>)}

\* the value of the name where the block looks it up: that of the var of
\* the block the lookup is in
ShadowValue(nd) ==
    IF Len(nd.nodes) = 3 /\ nd.nodes[3].k = "list"
    THEN nd.nodes[3].nodes[2].nodes[3].v
    ELSE nd.nodes[2].nodes[3].v

\* C3: a var inside a do block binds its name in the block's own scope only:
\* the block succeeds whatever the enclosing scopes bind (no
\* DuplicateBinding), the name resolves inside the block to the value of the
\* block's var, and when the block has returned every table of every
\* enclosing scope is as it was; a block inside the block leaves the outer
\* block's binding as it was too.
C3_DoShadows ==
    [][node' \in ShadowForms =>
        /\ out'.err = NoErr
        /\ out'.val = ShadowValue(node')
        /\ scopes' = scopes
      ]_vars

\* (var x 1) then (do (var x 2) x): the block yields 2 and x is still 1
C3_Witness ==
    /\ node = Form("do", <<Form("var", <<Sym("x"), Lit(R2)>>), Sym("x")>>)
    /\ out = [val |-> R2, err |-> NoErr]
    /\ "x" \in DOMAIN scopes[cur].vars
    /\ scopes[cur].vars["x"] = R1

-----------------------------------------------------------------------------
(* Programs over and, or and if. The operand (var x) has an effect on the *)
(* scope, u is bound nowhere, 0 is a number and not the Bool false.       *)

VarX == Form("var", <<Sym("x")>>)

LogicOperands == {Sym("false"), Lit(R0), VarX, Sym("u")}

SeqsUpTo(S, n) == UNION {[1..k -> S] : k \in 0..n}

AndForms == {Form("and", args) : args \in SeqsUpTo(LogicOperands, MaxOps)}

OrForms == {Form("or", args) : args \in SeqsUpTo(LogicOperands, MaxOps)}

IfConds == {Sym("false"), Lit(R0), Sym("nil"), Lit(StrV(1)), Sym("+"), VarX, Sym("u")}

IfBranches == {Lit(R1), VarX, Sym("u")}

IfForms ==
    {Form("if", <<c, a>>) : c \in IfConds, a \in IfBranches}
    \cup {Form("if", <<c, a, b>>) : c \in IfConds, a \in IfBranches, b \in IfBranches}
    \cup {Form("if", <<>>), Form("if", <<VarX>>), Form("if", <<Sym("false"), VarX, VarX, VarX>>),
          Form("if", <<Lit(R0), VarX, VarX, VarX>>)}

EvalAnd == \E nd \in AndForms : HostEval(nd)

EvalOr == \E nd \in OrForms : HostEval(nd)

EvalIf == \E nd \in IfForms : HostEval(nd)

NextLogic == EvalAnd \/ EvalOr \/ EvalIf

SpecLogic == Init /\ [][NextLogic]_vars

-----------------------------------------------------------------------------
(* Claims about and, or and if, checked under SpecLogic.                  *)

IsForm(nd, op) == nd.k = "list" /\ Len(nd.nodes) >= 1 /\ nd.nodes[1] = Sym(op)

Operands(nd) == SliceFrom(nd.nodes, 2)

IsOperandEval(e) == e.depth = 1

\* the operands of the form that were evaluated, in the order of evaluation
Evaluated(lg) == SelectSeq(lg, IsOperandEval)

False == BoolV(FALSE)

\* and: the operands evaluated are the first n, in order, none of the first
\* n - 1 false or failed; the n-th failed, or is false and the result false,
\* or is the last operand and its value the result
AndDecided(nd, o, lg) ==
    LET args == Operands(nd)
        top == Evaluated(lg)
        n == Len(top)
    IN  IF Len(args) = 0
        THEN o = [val |-> BoolV(TRUE), err |-> NoErr] /\ n = 0
        ELSE /\ n \in 1..Len(args)
             /\ \A i \in 1..n : top[i].node = args[i]
             /\ \A i \in 1..(n - 1) : top[i].err = NoErr /\ top[i].val # False
             /\ IF top[n].err # NoErr THEN o.err = top[n].err
                ELSE IF top[n].val = False THEN o = [val |-> False, err |-> NoErr]
                ELSE n = Len(args) /\ o = [val |-> top[n].val, err |-> NoErr]

\* or: the same with the first operand that is not false deciding
OrDecided(nd, o, lg) ==
    LET args == Operands(nd)
        top == Evaluated(lg)
        n == Len(top)
    IN  IF Len(args) = 0
        THEN o = [val |-> False, err |-> NoErr] /\ n = 0
        ELSE /\ n \in 1..Len(args)
             /\ \A i \in 1..n : top[i].node = args[i]
             /\ \A i \in 1..(n - 1) : top[i].err = NoErr /\ top[i].val = False
             /\ IF top[n].err # NoErr THEN o.err = top[n].err
                ELSE IF top[n].val # False THEN o = [val |-> top[n].val, err |-> NoErr]
                ELSE n = Len(args) /\ o = [val |-> False, err |-> NoErr]

\* no operand that was evaluated is (var x)
NoVarEvaluated(lg) == \A i \in 1..Len(lg) : lg[i].node # VarX

\* C7: and, or evaluate their operands left to right and stop at the first
\* that decides (false for and, anything else for or), whose value is the
\* result; no later operand is evaluated, so that the scope is as it was
\* unless an operand up to the deciding one was the (var x); if none
\* decides the result is the value of the last operand; (and) is true and
\* (or) is false.
C7_ShortCircuit ==
    [][/\ IsForm(node', "and") => AndDecided(node', out', log')
       /\ IsForm(node', "or") => OrDecided(node', out', log')
       /\ (IsForm(node', "and") \/ IsForm(node', "or")) /\ NoVarEvaluated(log')
            => scopes' = scopes
      ]_vars

\* (and 0 false (var x)) is false and x is not bound
C7_Witness ==
    /\ node = Form("and", <<Lit(R0), Sym("false"), VarX>>)
    /\ out = [val |-> False, err |-> NoErr]
    /\ "x" \notin DOMAIN scopes[cur].vars

\* if: with 2 or 3 operands the condition is evaluated first, then the one
\* branch its value selects, if there is one
IfDecided(nd, o, lg) ==
    LET args == Operands(nd)
        top == Evaluated(lg)
        n == Len(top)
    IN  IF Len(args) \notin {2, 3}
        THEN o.err.kind = "ArityMismatch" /\ Len(lg) = 1
        ELSE /\ n >= 1
             /\ top[1].node = args[1]
             /\ IF top[1].err # NoErr THEN n = 1 /\ o.err = top[1].err
                ELSE IF top[1].val = False
                THEN IF Len(args) = 3
                     THEN /\ n = 2
                          /\ top[2].node = args[3]
                          /\ o = [val |-> top[2].val, err |-> top[2].err]
                     ELSE n = 1 /\ o = [val |-> False, err |-> NoErr]
                ELSE /\ n = 2
                     /\ top[2].node = args[2]
                     /\ o = [val |-> top[2].val, err |-> top[2].err]

\* C8: if with 2 or 3 operands evaluates operand 0 once and then one branch:
\* operand 2 when the condition is the Bool false (false itself when there
\* is no operand 2, operand 1 not evaluated), operand 1 for every other
\* value (nil, 0, a string, a callable), operand 2 not evaluated; with any
\* other number of operands it fails and evaluates nothing.
C8_IfBranches ==
    IsForm(node, "if") => IfDecided(node, out, log)

\* (if 0 1 (var x)) is 1, and x is not bound
C8_Witness ==
    /\ node = Form("if", <<Lit(R0), Lit(R1), VarX>>)
    /\ out = [val |-> R1, err |-> NoErr]
    /\ "x" \notin DOMAIN scopes[cur].vars

-----------------------------------------------------------------------------
(* Programs over func: forms that build closures and calls of closures.   *)

Params(names) == List([i \in 1..Len(names) |-> Sym(names[i])])

\* (func r (c) (if c (r false) 1)) calls itself once when c is not false
FuncForms ==
    {Form("func", <<Sym("f"), Params(<<"a">>), Sym("a")>>),
     Form("func", <<Sym("r"), Params(<<"c">>),
                    Form("if", <<Sym("c"), List(<<Sym("r"), Sym("false")>>), Lit(R1)>>)>>),
     Form("func", <<Sym("f")>>),
     Form("func", <<Sym("f"), Lit(R1), Sym("a")>>),
     Form("func", <<List(<<Lit(R1)>>), Sym("a")>>),
     Form("func", <<Sym("f"), Params(<<"a">>)>>)}

CallArgs == {args \in SeqsUpTo({Lit(R1), Lit(R2)}, MaxArgs - 1) :
                \A i \in 1..Len(args) : args[i] = IF i = 1 THEN Lit(R1) ELSE Lit(R2)}

\* calls of the named closures, and of closures built where they are called
CallForms ==
    {List(<<Sym("f")>> \o args) : args \in CallArgs}
    \cup {List(<<Sym("r"), Sym("true")>>), List(<<Sym("r"), Sym("false")>>),
          List(<<Sym("r")>>)}
    \cup {List(<<Form("func", <<Params(<<>>), Lit(R1)>>)>> \o args) : args \in CallArgs}
    \cup {List(<<Form("func", <<Params(<<"a", "b">>), Sym("a"), Sym("b")>>)>> \o args) :
            args \in CallArgs}
    \cup {List(<<Form("func", <<Params(<<"a", "b">>), Sym("u"), Sym("b")>>)>> \o args) :
            args \in CallArgs}
    \cup {List(<<Form("func", <<Params(<<"a", "a">>), Sym("a")>>)>> \o args) :
            args \in CallArgs}

EvalFunc == \E nd \in FuncForms : HostEval(nd)

EvalCall == \E nd \in CallForms : HostEval(nd)

NextFunc == EvalFunc \/ EvalCall

SpecFunc == Init /\ [][NextFunc]_vars

-----------------------------------------------------------------------------
(* Claims about closures, checked under SpecFunc.                         *)

\* C1: every invocation of a closure that passes the arity check binds the
\* parameters in a fresh scope whose parent is the scope in which the func
\* form was evaluated, the first invocation and every later one, and the
\* scope a closure captured is never changed by invoking it.
C1_CapturedScopeFixed ==
    \A i \in 1..Len(calls) : calls[i].parent = calls[i].def

\* the call of a closure: the operator of the form evaluated to a closure
IsClosureCall(nd, lg) ==
    /\ nd.k = "list"
    /\ Len(nd.nodes) >= 1
    /\ ~IsSpecial(nd.nodes[1])
    /\ Len(Evaluated(lg)) >= 1
    /\ Evaluated(lg)[1].err = NoErr
    /\ Evaluated(lg)[1].val.t = "fn"

\* the name, parameters and body of the closure called: those of the
\* anonymous func form that is the operator of the call, or those the
\* closure table holds for the name that is
CalledName(nd, lg, table) ==
    IF nd.nodes[1].k = "list" THEN "" ELSE table[Evaluated(lg)[1].val.n].name

CalledParams(nd, lg, table) ==
    IF nd.nodes[1].k = "list" THEN nd.nodes[1].nodes[2].nodes
    ELSE table[Evaluated(lg)[1].val.n].params

CalledBody(nd, lg, table) ==
    IF nd.nodes[1].k = "list" THEN SliceFrom(nd.nodes[1].nodes, 3)
    ELSE table[Evaluated(lg)[1].val.n].body

\* the arity error of a closure of that name and number of parameters
ArityMessage(name, nparams) ==
    (IF name = "" THEN "anonymous function" ELSE "function \"" \o name \o "\"")
    \o (IF nparams = 0 THEN " takes no arguments"
        ELSE IF nparams = 1 THEN " takes one argument"
        ELSE " takes " \o ToString(nparams) \o " arguments")

\* C9: a closure invoked with a number of arguments other than its number
\* of parameters fails with the arity error that names it, worded by the
\* number of parameters, and then no scope is branched, no binding created
\* and no body node evaluated; with the same number the call goes on to
\* evaluate the body and returns the value of its last node (or the error
\* of the body node that failed).
C9_ArityChecked ==
    [][IsClosureCall(node', log') =>
        LET argc == Len(node'.nodes) - 1
            params == CalledParams(node', log', fns)
            body == CalledBody(node', log', fns)
            top == Evaluated(log')
        IN  IF argc # Len(params)
            THEN /\ out'.err = Err("ArityMismatch",
                                   ArityMessage(CalledName(node', log', fns), Len(params)))
                 /\ scopes' = scopes
                 /\ calls' = <<>>
                 /\ Len(top) = 1 + argc
            ELSE /\ out'.err.kind # "panic"
                 /\ Len(calls') >= 1
                 /\ Len(top) > 1 + argc
                 /\ out' = [val |-> top[Len(top)].val, err |-> top[Len(top)].err]
                 /\ out'.err = NoErr => top[Len(top)].node = body[Len(body)]
      ]_vars

\* C10: binding the parameters of a closure that func accepted into the
\* scope branched for an invocation never fails: the "must not happen"
\* panic is never raised, also when the parameter list repeats a name.
C10_BindNeverFails ==
    ~(out.err.kind = "panic" /\ out.err.msg = "must not happen: DuplicateBinding")

-----------------------------------------------------------------------------
(* The built-ins applied to evaluated arguments: the arguments are drawn  *)
(* at the start, each number a big.Rat of its own, and one built-in is    *)
(* applied to them.                                                       *)

ArgValues ==
    {RatV(n, d, 0) : n \in (-MaxNum)..MaxNum, d \in 1..MaxNum} \cup {StrV(1)}

\* the i-th argument is the big.Rat at address i
Addressed(args) ==
    [i \in 1..Len(args) |-> IF args[i].t = "rat" THEN [args[i] EXCEPT !.p = i] ELSE args[i]]

InitArith ==
    /\ scopes = <<[parent |-> 0, vars |-> rootVars]>>
    /\ fns = <<>>
    /\ ptr = R0.p
    /\ cur = 1
    /\ node = Lit(NilV)
    /\ out = NoOut
    /\ log = <<>>
    /\ calls = <<>>
    /\ aop = ""
    /\ aargs \in {Addressed(args) : args \in SeqsUpTo(ArgValues, MaxArgs)}
    /\ ares = NoOut

\* the machine a built-in runs in: the addresses of the arguments are taken
ArgMachine(args) ==
    [scopes |-> <<[parent |-> 0, vars |-> rootVars]>>, fns |-> <<>>, ptr |-> Len(args),
     log |-> <<>>, calls |-> <<>>, depth |-> 0]

Apply(name) ==
    /\ aop = ""
    /\ aop' = name
    /\ \E k \in {i \in 1..Len(Builtins) : Builtins[i] = name} :
         \E r \in {CallBuiltin(k, aargs, ArgMachine(aargs))} :
           ares' = [val |-> r.val, err |-> r.err]
    /\ UNCHANGED <<aargs, evalVars>>

ApplyError == Apply("error")

ApplyEq == Apply("==")

ApplyNe == Apply("!=")

ApplyPlus == Apply("+")

ApplyMinus == Apply("-")

ApplyMul == Apply("*")

ApplyDiv == Apply("/")

\* (== a (* (/ a b) b))
RoundTripForm ==
    Form("==", <<Sym("a"), Form("*", <<Form("/", <<Sym("a"), Sym("b")>>), Sym("b")>>)>>)

\* the host binds a and b to the two arguments and evaluates the form
EvalRoundTrip ==
    /\ aop = ""
    /\ Len(aargs) = 2
    /\ aop' = "roundtrip"
    /\ \E m \in {ArgMachine(aargs)} :
         \E r \in {Eval(RoundTripForm, 1,
                        [m EXCEPT !.scopes[1].vars =
                            Bind(Bind(@, "a", aargs[1]), "b", aargs[2])])} :
           ares' = [val |-> r.val, err |-> r.err]
    /\ UNCHANGED <<aargs, evalVars>>

NextArith ==
    \/ ApplyError \/ ApplyEq \/ ApplyNe \/ ApplyPlus
    \/ ApplyMinus \/ ApplyMul \/ ApplyDiv \/ EvalRoundTrip

SpecArith == InitArith /\ [][NextArith]_vars

-----------------------------------------------------------------------------
(* Claims about the built-ins, checked under SpecArith.                   *)

AllRats(args) == \A i \in 1..Len(args) : args[i].t = "rat"

\* v is a Rational whose value is the fraction num / den
IsNumber(v, num, den) == v.t = "rat" /\ v.d # 0 /\ v.n * den = num * v.d

\* args[1] - args[2] - ... - args[Len(args)] as a fraction [n, d], from the
\* fraction of the first i arguments
RECURSIVE SubFold(_, _, _, _)
SubFold(args, i, num, den) ==
    IF i = Len(args) THEN [n |-> num, d |-> den]
    ELSE SubFold(args, i + 1, num * args[i + 1].d - args[i + 1].n * den, den * args[i + 1].d)

\* an error value came back: not a value, not a crash
ReturnedError(res) == res.err.kind \notin {"", "panic"}

\* C4: - returns an error for no argument; for one Rational a it returns
\* 0 - a; for two or more Rationals it returns args[0] - args[1] - ...
\* folded left to right.
C4_Minus ==
    aop = "-" =>
        IF Len(aargs) = 0 THEN ReturnedError(ares)
        ELSE AllRats(aargs) =>
                /\ ares.err = NoErr
                /\ IF Len(aargs) = 1
                   THEN IsNumber(ares.val, 0 - aargs[1].n, aargs[1].d)
                   ELSE LET e == SubFold(aargs, 1, aargs[1].n, aargs[1].d)
                        IN  IsNumber(ares.val, e.n, e.d)

\* C5: / applied to two or more Rationals with a zero among the divisors
\* returns an error value to its caller and does not crash; no Rational
\* with a zero denominator is ever produced.
C5_DivByZero ==
    aop = "/" =>
        /\ (Len(aargs) >= 2 /\ AllRats(aargs) /\ \E i \in 2..Len(aargs) : aargs[i].n = 0)
              => ReturnedError(ares)
        /\ ares.val.t = "rat" => ares.val.d # 0

\* C6: for Rationals a and b, b not zero, == applied to a and to the result
\* of (* (/ a b) b) returns true.
C6_RoundTripEqual ==
    (aop = "roundtrip" /\ AllRats(aargs) /\ aargs[2].n # 0) =>
        ares = [val |-> BoolV(TRUE), err |-> NoErr]

=============================================================================
